---- MODULE Spec2Model ----
(***************************************************************************)
(* SQUIRDLE word game: the guess evaluator and word helpers of             *)
(* src/utils/gameLogic.ts and the session state machine of the             *)
(* GameProvider (src/context/GameContext.tsx, the second half of           *)
(* src/src/App.tsx).                                                        *)
(*                                                                         *)
(* A JavaScript string is a sequence of one-character strings, so that     *)
(* toLowerCase, trim and the regular expression of isValidWord act on the  *)
(* characters as the code does.                                            *)
(***************************************************************************)
EXTENDS Integers, Sequences, FiniteSets, TLC

VARIABLES
    gameState,          \* useState<GameState>            (App.tsx 110-119)
    currentHint,        \* useState<HintSummary | null>   (App.tsx 121)
    lastGuessFeedback,  \* useState<LetterFeedback[]|null>(App.tsx 122)
    keyboardStatus,     \* useState<Record<string,...>>   (App.tsx 123)
    stats,              \* useState<GameStats>            (App.tsx 124)
    localStorage,       \* the browser store: wordgame_stats, wordgame_daily
    today,              \* the clock: new Date() yields Dates[today]
    submitResult,       \* value returned by the last submitGuess call
    statsCalls,         \* history: arguments of the updateStats calls of this session
    lateGuesses,        \* history: guesses accepted in this session while not playing
    dailyCalls,         \* history: arguments of the saveDailyChallengeCompleted calls of this session
    evGuess,            \* evaluator harness: the guess argument
    evSecret,           \* evaluator harness: the secret argument
    evFeedback,         \* evaluator harness: getGuessFeedback's result, or null
    evHint,             \* evaluator harness: getHintSummary's result, or null
    evCorrect,          \* evaluator harness: isGuessCorrect's result, or null
    storeCall,          \* store harness: the last call on the store and its outcome
    callers,            \* concurrent callers of updateStats: position, arguments, loaded copy
    raceHistory,        \* history: the statistics at the start; whether two calls overlapped
    dailySeen           \* history: the daily sessions started, where they are observed

vars == <<gameState, currentHint, lastGuessFeedback, keyboardStatus, stats,
          localStorage, today, submitResult, statsCalls, lateGuesses, dailyCalls,
          evGuess, evSecret, evFeedback, evHint, evCorrect, storeCall,
          callers, raceHistory, dailySeen>>

sessionVars == <<gameState, currentHint, lastGuessFeedback, keyboardStatus, stats,
                 localStorage, today, submitResult, statsCalls, lateGuesses, dailyCalls>>

evalVars == <<evGuess, evSecret, evFeedback, evHint, evCorrect>>

storeVars == <<storeCall, callers, raceHistory>>

----------------------------------------------------------------------------
(* Characters and strings                                                  *)

LOWER == <<"a","b","c","d","e","f","g","h","i","j","k","l","m",
           "n","o","p","q","r","s","t","u","v","w","x","y","z">>

UPPER == <<"A","B","C","D","E","F","G","H","I","J","K","L","M",
           "N","O","P","Q","R","S","T","U","V","W","X","Y","Z">>

\* The characters [a-z] of the regular expression of isValidWord.
LowerAlpha == {LOWER[i] : i \in 1..26}

UpperAlpha == {UPPER[i] : i \in 1..26}

lowerOf == [c \in UpperAlpha |-> LOWER[CHOOSE i \in 1..26 : UPPER[i] = c]]

upperOf == [c \in LowerAlpha |-> UPPER[CHOOSE i \in 1..26 : LOWER[i] = c]]

\* String.prototype.toLowerCase on one character.
toLowerCaseChar(c) == IF c \in UpperAlpha THEN lowerOf[c] ELSE c

\* String.prototype.toUpperCase on one character.
toUpperCaseChar(c) == IF c \in LowerAlpha THEN upperOf[c] ELSE c

toLowerCase(s) == [i \in 1..Len(s) |-> toLowerCaseChar(s[i])]

toUpperCase(s) == [i \in 1..Len(s) |-> toUpperCaseChar(s[i])]

WhiteSpace == {" "}

RECURSIVE trimStart(_)
trimStart(s) ==
    IF s # <<>> /\ Head(s) \in WhiteSpace THEN trimStart(Tail(s)) ELSE s

RECURSIVE trimEnd(_)
trimEnd(s) ==
    IF s # <<>> /\ s[Len(s)] \in WhiteSpace
    THEN trimEnd(SubSeq(s, 1, Len(s) - 1))
    ELSE s

\* String.prototype.trim.
trim(s) == trimEnd(trimStart(s))

\* The set of characters of a string.
Chars(s) == {s[i] : i \in 1..Len(s)}

\* Number of positions of s holding character c.
Occurrences(c, s) == Cardinality({i \in 1..Len(s) : s[i] = c})

----------------------------------------------------------------------------
(* isValidWord (gameLogic.ts 37-49)                                        *)

\* A faulty variant: the character-class test is dropped.
isValidWord_NoRegex(word, wordLength) ==
    LET cleanWord == trim(toLowerCase(word))
        len == Len(cleanWord)
    IN  /\ ~(len # 5 /\ len # 6)
        /\ ~(len # wordLength)

isValidWord(word, wordLength) ==
    LET cleanWord == trim(toLowerCase(word))
        len == Len(cleanWord)
    IN  /\ ~(len # 5 /\ len # 6)
        /\ ~(len # wordLength)
        /\ len >= 1
        /\ \A i \in 1..len : cleanWord[i] \in LowerAlpha

----------------------------------------------------------------------------
(* getGuessFeedback (gameLogic.ts 83-131)                                  *)

\* secretCharCounts after the counting loop (lines 93-95).
countChars(secretChars) ==
    [c \in Chars(secretChars) |-> Occurrences(c, secretChars)]

\* The positions the first pass marks (line 100); a position beyond the
\* secret reads undefined and never matches.
exactMatches(guessChars, secretChars) ==
    {i \in 1..Len(guessChars) : i <= Len(secretChars) /\ guessChars[i] = secretChars[i]}

\* secretCharCounts after the first pass: one decrement per exact match.
afterFirstPass(guessChars, secretChars) ==
    LET counts == countChars(secretChars)
        exact == exactMatches(guessChars, secretChars)
    IN  [c \in DOMAIN counts |->
            counts[c] - Cardinality({i \in exact : guessChars[i] = c})]

\* The second pass (lines 108-121), from position i on, with the running
\* counts; exact are the positions already marked correct.
RECURSIVE secondPass(_, _, _, _, _)
secondPass(guessChars, exact, i, counts, feedback) ==
    IF i > Len(guessChars) THEN feedback
    ELSE LET char == guessChars[i] IN
         IF i \in exact
         THEN secondPass(guessChars, exact, i + 1, counts,
                         Append(feedback, [letter |-> char, status |-> "correct"]))
         ELSE IF char \in DOMAIN counts /\ counts[char] > 0
         THEN secondPass(guessChars, exact, i + 1,
                         [counts EXCEPT ![char] = @ - 1],
                         Append(feedback, [letter |-> char, status |-> "present"]))
         ELSE secondPass(guessChars, exact, i + 1, counts,
                         Append(feedback, [letter |-> char, status |-> "absent"]))

\* A faulty variant: a single left-to-right pass that marks present before the
\* exact matches have been reserved.
RECURSIVE greedyPass(_, _, _, _, _)
greedyPass(guessChars, secretChars, i, counts, feedback) ==
    IF i > Len(guessChars) THEN feedback
    ELSE LET char == guessChars[i] IN
         IF i <= Len(secretChars) /\ char = secretChars[i]
         THEN greedyPass(guessChars, secretChars, i + 1, counts,
                         Append(feedback, [letter |-> char, status |-> "correct"]))
         ELSE IF char \in DOMAIN counts /\ counts[char] > 0
         THEN greedyPass(guessChars, secretChars, i + 1,
                         [counts EXCEPT ![char] = @ - 1],
                         Append(feedback, [letter |-> char, status |-> "present"]))
         ELSE greedyPass(guessChars, secretChars, i + 1, counts,
                         Append(feedback, [letter |-> char, status |-> "absent"]))

getGuessFeedback_Greedy(guess, secret) ==
    LET guessChars == toLowerCase(guess)
        secretChars == toLowerCase(secret)
    IN  greedyPass(guessChars, secretChars, 1, countChars(secretChars), <<>>)

\* A faulty variant: the second pass never decrements the remaining count.
getGuessFeedback_NoDecrement(guess, secret) ==
    LET guessChars == toLowerCase(guess)
        secretChars == toLowerCase(secret)
        exact == exactMatches(guessChars, secretChars)
        counts == afterFirstPass(guessChars, secretChars)
    IN  [i \in 1..Len(guessChars) |->
            [letter |-> guessChars[i],
             status |-> IF i \in exact THEN "correct"
                        ELSE IF guessChars[i] \in DOMAIN counts
                                /\ counts[guessChars[i]] > 0
                             THEN "present" ELSE "absent"]]

\* A faulty variant: the words are not lower-cased.
getGuessFeedback_AsGiven(guess, secret) ==
    secondPass(guess, exactMatches(guess, secret), 1,
               afterFirstPass(guess, secret), <<>>)

\* A faulty variant: only the first pass; no letter is ever marked present.
getGuessFeedback_ExactOnly(guess, secret) ==
    LET guessChars == toLowerCase(guess)
        secretChars == toLowerCase(secret)
        exact == exactMatches(guessChars, secretChars)
    IN  [i \in 1..Len(guessChars) |->
            [letter |-> guessChars[i],
             status |-> IF i \in exact THEN "correct" ELSE "absent"]]

getGuessFeedback(guess, secret) ==
    LET guessChars == toLowerCase(guess)
        secretChars == toLowerCase(secret)
    IN  secondPass(guessChars, exactMatches(guessChars, secretChars), 1,
                   afterFirstPass(guessChars, secretChars), <<>>)

----------------------------------------------------------------------------
(* getHintSummary, isGuessCorrect, getMaxAttempts (gameLogic.ts 139-181)   *)

\* The loop of lines 144-149, from position i on.
RECURSIVE countCorrectPosition(_, _, _)
countCorrectPosition(guessLower, secretLower, i) ==
    IF i > Len(guessLower) THEN 0
    ELSE (IF i <= Len(secretLower) /\ guessLower[i] = secretLower[i] THEN 1 ELSE 0)
         + countCorrectPosition(guessLower, secretLower, i + 1)

\* The loop of lines 156-161, from position i on: counted is countedLetters.
RECURSIVE countLettersInWord(_, _, _, _)
countLettersInWord(guessLower, secretChars, i, counted) ==
    IF i > Len(guessLower) THEN 0
    ELSE IF guessLower[i] \in secretChars /\ guessLower[i] \notin counted
         THEN 1 + countLettersInWord(guessLower, secretChars, i + 1,
                                     counted \cup {guessLower[i]})
         ELSE countLettersInWord(guessLower, secretChars, i + 1, counted)

\* A faulty variant: every occurrence of a letter of the secret is counted.
getHintSummary_CountsRepeats(guess, secret) ==
    LET guessLower == toLowerCase(guess)
        secretLower == toLowerCase(secret)
    IN  [lettersInWord |->
            Cardinality({i \in 1..Len(guessLower) : guessLower[i] \in Chars(secretLower)}),
         correctPosition |-> countCorrectPosition(guessLower, secretLower, 1)]

getHintSummary(guess, secret) ==
    LET guessLower == toLowerCase(guess)
        secretLower == toLowerCase(secret)
    IN  [lettersInWord |-> countLettersInWord(guessLower, Chars(secretLower), 1, {}),
         correctPosition |-> countCorrectPosition(guessLower, secretLower, 1)]

\* A faulty variant: the words are compared as given.
isGuessCorrect_CaseSensitive(guess, secret) == guess = secret

isGuessCorrect(guess, secret) == toLowerCase(guess) = toLowerCase(secret)

\* A faulty variant: six attempts for either length.
getMaxAttempts_AlwaysSix(wordLength) == 6

getMaxAttempts(wordLength) == IF wordLength = 5 THEN 6 ELSE 7

----------------------------------------------------------------------------
(* Nullable values: null is the empty tuple, a value v is <<v>>.            *)

Null == <<>>

Some(v) == <<v>>

----------------------------------------------------------------------------
(* Dates and the daily word (gameLogic.ts 17-31)                           *)

DIGITS == <<"0","1","2","3","4","5","6","7","8","9">>

\* Decimal digits of a natural number, as template literals print it.
RECURSIVE numberToString(_)
numberToString(n) ==
    IF n < 10 THEN <<DIGITS[n + 1]>>
    ELSE Append(numberToString(n \div 10), DIGITS[(n % 10) + 1])

\* `${getFullYear()}-${getMonth()}-${getDate()}` (line 20; the month is 0-based).
dateString(d) ==
    numberToString(d.year) \o <<"-">> \o numberToString(d.month)
        \o <<"-">> \o numberToString(d.day)

\* charCodeAt for the characters a date string holds.
charCode(c) ==
    IF c = "-" THEN 45 ELSE 47 + (CHOOSE i \in 1..10 : DIGITS[i] = c)

\* One round of the loop of lines 24-27 on a 32-bit value kept as two
\* 16-bit halves: ((hash << 5) - hash) + code, then hash & hash (ToInt32),
\* is 31 * hash + code modulo 2^32.
hashStep(h, code) ==
    LET lo == h.lo * 31 + code
        hi == h.hi * 31 + (lo \div 65536)
    IN  [hi |-> hi % 65536, lo |-> lo % 65536]

RECURSIVE hashFrom(_, _, _)
hashFrom(s, i, h) ==
    IF i > Len(s) THEN h ELSE hashFrom(s, i + 1, hashStep(h, charCode(s[i])))

\* The hash of lines 23-27 as an unsigned 32-bit value in two halves.
dateHash(s) == hashFrom(s, 1, [hi |-> 0, lo |-> 0])

\* Math.abs of the signed reading of h, again in two halves: a value with
\* the top bit set is negative and is negated (two's complement).
absHash(h) ==
    IF h.hi < 32768 THEN h
    ELSE IF h.lo = 0 THEN [hi |-> (65536 - h.hi) % 65536, lo |-> 0]
         ELSE [hi |-> 65535 - h.hi, lo |-> 65536 - h.lo]

\* Math.abs(hash) % n (line 29); abs(-2^31) = 2^31 has hi = 32768.
hashIndex(h, n) ==
    LET a == absHash(h) IN (((a.hi % n) * (65536 % n)) + a.lo) % n

\* The word lists of src/data/words.ts.
FIVE_LETTER_WORDS == << <<"h","e","l","l","o">>, <<"w","o","r","l","d">> >>

SIX_LETTER_WORDS == << <<"g","a","r","d","e","n">>, <<"b","a","n","a","n","a">> >>

wordListFor(wordLength) ==
    IF wordLength = 5 THEN FIVE_LETTER_WORDS ELSE SIX_LETTER_WORDS

\* A faulty variant: the word moves on with every game recorded.
getDailyWord_ByGamesPlayed(wordLength, d) ==
    LET wordList == wordListFor(wordLength)
    IN  wordList[(stats.gamesPlayed % Len(wordList)) + 1]

\* getDailyWord with the clock reading d.
getDailyWord(wordLength, d) ==
    LET wordList == wordListFor(wordLength)
    IN  wordList[hashIndex(dateHash(dateString(d)), Len(wordList)) + 1]

\* The clock readings: 1 and 2 November 2026 (getMonth() is 0-based).
Dates == << [year |-> 2026, month |-> 10, day |-> 1],
            [year |-> 2026, month |-> 10, day |-> 2] >>

\* getDailyWord and the date string, tabulated for the clock readings.
dailyWordOn == [wordLength \in {5, 6} |->
                  [i \in 1..Len(Dates) |-> getDailyWord(wordLength, Dates[i])]]

dateStringOn == [i \in 1..Len(Dates) |-> dateString(Dates[i])]

\* The words getRandomWord can return (gameLogic.ts 7-11).
getRandomWord(wordLength) ==
    LET wordList == wordListFor(wordLength)
    IN  {wordList[i] : i \in 1..Len(wordList)}

----------------------------------------------------------------------------
(* Bounds of the model                                                     *)

\* Games recorded in GameStats: updateStats is not taken beyond it, and no
\* session is started once it is reached.
MaxGames == 2

\* Guesses one session accepts after it has ended.
MaxLate == 1

\* Letters are typed into the buffer of a session in play only while it
\* holds at most this many guesses.
MaxTypedAfter == 1

\* Games recorded in the store on its own: updateStats is not taken beyond it.
MaxRecorded == 4

----------------------------------------------------------------------------
(* Statistics and the daily record (gameLogic.ts 186-236, 298-331)         *)

\* The default of loadStats (lines 196-202).
DefaultStats ==
    [gamesPlayed |-> 0, gamesWon |-> 0, currentStreak |-> 0, bestStreak |-> 0,
     guessDistribution |-> <<>>]

\* The value null, as JSON.parse returns it for the text "null".
JsNull == [null |-> TRUE]

\* The text of a stored item: JSON.stringify of a record, the text "null",
\* or a text JSON.parse rejects.
objectText(v) == [json |-> "object", value |-> v]

NullText == [json |-> "null", value |-> JsNull]

Unparseable == [json |-> "unparseable", value |-> JsNull]

\* JSON.parse: whether it throws a SyntaxError, and the value it returns.
parseThrows(text) == text.json = "unparseable"

JSON_parse(text) == text.value

\* loadStats on a store (lines 186-203): getItem yields null for a key never
\* set; an error of JSON.parse is caught; whatever it returns is returned.
loadStats(store) ==
    LET stored == store.wordgame_stats IN
    IF stored # Null /\ ~parseThrows(stored[1])
    THEN JSON_parse(stored[1])
    ELSE DefaultStats

\* A faulty variant: the item is not written.
saveStats_Dropped(store, s) == store

\* saveStats on a store.
saveStats(store, s) == [store EXCEPT !.wordgame_stats = Some(objectText(s))]

\* guessDistribution[guesses] = (guessDistribution[guesses] || 0) + 1 (line 229).
bumpDistribution(dist, guesses) ==
    [k \in DOMAIN dist \cup {guesses} |->
        IF k = guesses
        THEN (IF k \in DOMAIN dist THEN dist[k] ELSE 0) + 1
        ELSE dist[k]]

\* A faulty variant: a loss is entered as a win.
updatedStats_CountsLoss(s, won, guesses) ==
    [gamesPlayed |-> s.gamesPlayed + 1,
     gamesWon |-> s.gamesWon + 1,
     currentStreak |-> s.currentStreak + 1,
     bestStreak |-> IF s.currentStreak + 1 > s.bestStreak
                    THEN s.currentStreak + 1 ELSE s.bestStreak,
     guessDistribution |-> bumpDistribution(s.guessDistribution, guesses)]

\* A faulty variant: a loss is entered into the guess distribution.
updatedStats_DistributesLoss(s, won, guesses) ==
    [gamesPlayed |-> s.gamesPlayed + 1,
     gamesWon |-> IF won THEN s.gamesWon + 1 ELSE s.gamesWon,
     currentStreak |-> IF won THEN s.currentStreak + 1 ELSE 0,
     bestStreak |-> IF won /\ s.currentStreak + 1 > s.bestStreak
                    THEN s.currentStreak + 1 ELSE s.bestStreak,
     guessDistribution |-> bumpDistribution(s.guessDistribution, guesses)]

\* A faulty variant: a win does not raise bestStreak.
updatedStats_KeepsBestStreak(s, won, guesses) ==
    IF won
    THEN [gamesPlayed |-> s.gamesPlayed + 1,
          gamesWon |-> s.gamesWon + 1,
          currentStreak |-> s.currentStreak + 1,
          bestStreak |-> s.bestStreak,
          guessDistribution |-> bumpDistribution(s.guessDistribution, guesses)]
    ELSE [s EXCEPT !.gamesPlayed = @ + 1, !.currentStreak = 0]

\* The stats updateStats computes from the loaded ones (lines 222-232).
updatedStats(s, won, guesses) ==
    IF won
    THEN [gamesPlayed |-> s.gamesPlayed + 1,
          gamesWon |-> s.gamesWon + 1,
          currentStreak |-> s.currentStreak + 1,
          bestStreak |-> IF s.currentStreak + 1 > s.bestStreak
                         THEN s.currentStreak + 1 ELSE s.bestStreak,
          guessDistribution |-> bumpDistribution(s.guessDistribution, guesses)]
    ELSE [s EXCEPT !.gamesPlayed = @ + 1, !.currentStreak = 0]

\* updateStats throws a TypeError at stats.gamesPlayed++ (line 222) when the
\* loaded value is null.
updateStatsThrows(store) == loadStats(store) = JsNull

\* updateStats: the value it returns, loaded from and saved to the store.
updateStats(store, won, guesses) == updatedStats(loadStats(store), won, guesses)

\* isDailyChallengeCompleted with the clock at Dates[d] (no caller in src/).
isDailyChallengeCompleted(store, d) ==
    LET stored == store.wordgame_daily IN
    IF stored # Null /\ ~parseThrows(stored[1])
    THEN LET daily == JSON_parse(stored[1])
         IN  IF daily = JsNull
             THEN FALSE     \* daily.date throws, caught at line 307
             ELSE daily.date = dateStringOn[d] /\ daily.completed
    ELSE FALSE

\* saveDailyChallengeCompleted with the clock at Dates[d].
saveDailyChallengeCompleted(store, d, won, wordLength, guesses) ==
    [store EXCEPT !.wordgame_daily =
        Some(objectText([date |-> dateStringOn[d], completed |-> TRUE, won |-> won,
                         wordLength |-> wordLength, guesses |-> guesses]))]

----------------------------------------------------------------------------
(* updateKeyboardStatus (App.tsx 164-183)                                  *)

\* keyboardStatus[key]: undefined for a key never written.
statusOf(ks, key) == IF key \in DOMAIN ks THEN ks[key] ELSE "undefined"

setStatus(ks, key, status) ==
    [k \in DOMAIN ks \cup {key} |-> IF k = key THEN status ELSE ks[k]]

\* A faulty variant: the last feedback item always overwrites the recorded status.
updateOneKey_Overwrite(ks, item) == setStatus(ks, item.letter, item.status)

\* One round of the loop of lines 168-179.
updateOneKey(ks, item) ==
    LET currentStatus == statusOf(ks, item.letter) IN
    IF item.status = "correct"
    THEN setStatus(ks, item.letter, "correct")
    ELSE IF item.status = "present" /\ currentStatus # "correct"
    THEN setStatus(ks, item.letter, "present")
    ELSE IF item.status = "absent" /\ currentStatus # "correct"
                                   /\ currentStatus # "present"
    THEN setStatus(ks, item.letter, "absent")
    ELSE ks

RECURSIVE updateKeyboardFrom(_, _, _)
updateKeyboardFrom(ks, feedback, i) ==
    IF i > Len(feedback) THEN ks
    ELSE updateKeyboardFrom(updateOneKey(ks, feedback[i]), feedback, i + 1)

updateKeyboardStatus(prev, feedback) == updateKeyboardFrom(prev, feedback, 1)

----------------------------------------------------------------------------
(* Inputs of the operations                                                *)

WordLengths == {5, 6}

GameModes == {"daily", "unlimited"}

\* customWord arguments of startGame; the empty string stands for an
\* omitted argument too (both are falsy at line 137).
CustomWords == { <<>>, <<"W","o","r","l","d">> }

\* Arguments of submitGuess: words of both lengths, a capitalised word, a
\* word with a digit, a word that is too short, a word followed by a blank.
RawGuesses ==
    { <<"h","e","l","l","o">>, <<"w","o","r","l","d">>, <<"W","O","R","L","D">>,
      <<"g","a","r","d","e","n">>, <<"b","a","n","a","n","a">>,
      <<"h","e","l","l","1">>, <<"h","e","l","l">>, <<"h","e","l","l","o"," ">> }

\* Arguments of addLetter.
TypedLetters == {"e", "E"}

----------------------------------------------------------------------------
(* The GameProvider (App.tsx 109-313)                                      *)

\* The provider's first state over a store.
InitWith(store) ==
    /\ gameState = [secretWord |-> <<>>, guesses |-> <<>>, currentGuess |-> <<>>,
                    gameStatus |-> "playing", wordLength |-> 5,
                    gameMode |-> "unlimited", difficulty |-> "normal",
                    maxAttempts |-> 6]
    /\ currentHint = Null
    /\ lastGuessFeedback = Null
    /\ keyboardStatus = <<>>
    /\ localStorage = store
    /\ stats = loadStats(store)
    /\ today = 1
    /\ submitResult = "none"
    /\ statsCalls = <<>>
    /\ lateGuesses = 0
    /\ dailyCalls = <<>>

\* No call on the store yet.
NoCall == [op |-> "none", won |-> FALSE, guesses |-> 0, outcome |-> "none",
           value |-> Null]

\* A browser profile that has never run the game.
EmptyStore == [wordgame_stats |-> Null, wordgame_daily |-> Null]

\* The callers of updateStats that may interleave.
Callers == {1, 2}

\* No caller has entered updateStats.
NoCallers == [p \in Callers |->
                [pc |-> "idle", won |-> FALSE, guesses |-> 0, loaded |-> Null]]

\* The store harness at rest over the store the provider started from.
InitHarness ==
    /\ storeCall = NoCall
    /\ callers = NoCallers
    /\ raceHistory = [start |-> loadStats(localStorage), overlapped |-> FALSE]
    /\ dailySeen = {}

InitSession == InitWith(EmptyStore)

Init ==
    /\ InitSession
    /\ InitHarness
    /\ evGuess = <<>>
    /\ evSecret = <<>>
    /\ evFeedback = Null
    /\ evHint = Null
    /\ evCorrect = Null

\* The state startGame sets for a chosen secret (lines 148-161).
startWith(secretWord, wordLength, gameMode) ==
    /\ gameState' = [secretWord |-> secretWord, guesses |-> <<>>,
                     currentGuess |-> <<>>, gameStatus |-> "playing",
                     wordLength |-> wordLength, gameMode |-> gameMode,
                     difficulty |-> "normal",
                     maxAttempts |-> getMaxAttempts(wordLength)]
    /\ currentHint' = Null
    /\ lastGuessFeedback' = Null
    /\ keyboardStatus' = <<>>
    /\ statsCalls' = <<>>
    /\ lateGuesses' = 0
    /\ dailyCalls' = <<>>
    /\ UNCHANGED <<stats, localStorage, today, submitResult>>
    /\ UNCHANGED <<evalVars, storeVars>>

\* customWord && customWord.length > 0 && customWord.length === wordLength
\* (line 137).
customWordUsed(customWord, wordLength) ==
    customWord # <<>> /\ Len(customWord) > 0 /\ Len(customWord) = wordLength

\* startGame(wordLength, gameMode, customWord) (lines 133-162).
startGame(wordLength, gameMode, customWord) ==
    IF customWordUsed(customWord, wordLength)
    THEN startWith(toLowerCase(customWord), wordLength, gameMode)
    ELSE IF gameMode = "daily"
    THEN startWith(dailyWordOn[wordLength][today], wordLength, gameMode)
    ELSE \E secretWord \in getRandomWord(wordLength) :
            startWith(secretWord, wordLength, gameMode)

StartGame ==
    /\ ~updateStatsThrows(localStorage) => loadStats(localStorage).gamesPlayed < MaxGames
    /\ \E wordLength \in WordLengths, gameMode \in GameModes, customWord \in CustomWords :
        startGame(wordLength, gameMode, customWord)
    /\ UNCHANGED dailySeen

\* resetGame (lines 263-265).
ResetGame ==
    /\ ~updateStatsThrows(localStorage) => loadStats(localStorage).gamesPlayed < MaxGames
    /\ startGame(gameState.wordLength, gameState.gameMode, <<>>)
    /\ UNCHANGED dailySeen

\* A faulty variant: a word equal to the last recorded one is not recorded again.
appendGuess_Dedup(guesses, word, feedback) ==
    IF guesses # <<>> /\ guesses[Len(guesses)].word = word
    THEN guesses
    ELSE Append(guesses, [word |-> word, feedback |-> feedback])

\* [...gameState.guesses, { word, feedback }] (line 205).
appendGuess(guesses, word, feedback) ==
    Append(guesses, [word |-> word, feedback |-> feedback])

\* submitGuess(guess) (lines 185-231).
submitGuess(guess) ==
    LET word == toLowerCase(guess) IN
    IF Len(word) # gameState.wordLength \/ ~isValidWord(word, gameState.wordLength)
    THEN /\ submitResult' = "false"
         /\ UNCHANGED <<gameState, currentHint, lastGuessFeedback, keyboardStatus,
                        stats, localStorage, today, statsCalls, lateGuesses, dailyCalls>>
         /\ UNCHANGED <<evalVars, storeVars, dailySeen>>
    ELSE LET feedback == getGuessFeedback(word, gameState.secretWord)
             hint == getHintSummary(word, gameState.secretWord)
             newGuesses == appendGuess(gameState.guesses, word, feedback)
             won == isGuessCorrect(word, gameState.secretWord)
             lost == ~won /\ Len(newGuesses) >= gameState.maxAttempts
             newStats == updateStats(localStorage, won, Len(newGuesses))
             saved == saveStats(localStorage, newStats)
         IN  /\ gameState.gameStatus # "playing" => lateGuesses < MaxLate
             /\ ((won \/ lost) /\ ~updateStatsThrows(localStorage)) =>
                    loadStats(localStorage).gamesPlayed < MaxGames
             /\ keyboardStatus' = updateKeyboardStatus(keyboardStatus, feedback)
             /\ gameState' = [gameState EXCEPT
                                !.guesses = newGuesses,
                                !.currentGuess = <<>>,
                                !.gameStatus = IF won THEN "won"
                                               ELSE IF lost THEN "lost" ELSE "playing"]
             /\ lastGuessFeedback' = Some(feedback)
             /\ currentHint' = Some(hint)
             /\ IF (won \/ lost) /\ updateStatsThrows(localStorage)
                THEN \* updateStats throws: the state set so far stays queued,
                     \* the rest of the handler does not run.
                     /\ statsCalls' = Append(statsCalls,
                                             [won |-> won, guesses |-> Len(newGuesses)])
                     /\ submitResult' = "TypeError"
                     /\ UNCHANGED <<stats, localStorage, dailyCalls>>
                ELSE IF won \/ lost
                THEN /\ stats' = newStats
                     /\ submitResult' = "true"
                     /\ statsCalls' = Append(statsCalls,
                                             [won |-> won, guesses |-> Len(newGuesses)])
                     /\ localStorage' =
                            IF gameState.gameMode = "daily"
                            THEN saveDailyChallengeCompleted(saved, today, won,
                                    gameState.wordLength, Len(newGuesses))
                            ELSE saved
                     /\ dailyCalls' =
                            IF gameState.gameMode = "daily"
                            THEN Append(dailyCalls,
                                        [won |-> won, wordLength |-> gameState.wordLength,
                                         guesses |-> Len(newGuesses)])
                            ELSE dailyCalls
                ELSE /\ submitResult' = "true"
                     /\ UNCHANGED <<stats, statsCalls, localStorage, dailyCalls>>
             /\ lateGuesses' = IF gameState.gameStatus # "playing"
                               THEN lateGuesses + 1 ELSE lateGuesses
             /\ UNCHANGED today
             /\ UNCHANGED <<evalVars, storeVars, dailySeen>>

SubmitGuess == \E guess \in RawGuesses : submitGuess(guess)

\* A faulty variant: the buffer is not limited to wordLength characters.
addLetter_NoLimit(letter) ==
    /\ IF gameState.gameStatus # "playing"
       THEN UNCHANGED gameState
       ELSE gameState' = [gameState EXCEPT
                            !.currentGuess = Append(@, toLowerCaseChar(letter))]
    /\ UNCHANGED <<currentHint, lastGuessFeedback, keyboardStatus, stats,
                   localStorage, today, submitResult, statsCalls, lateGuesses, dailyCalls>>
    /\ UNCHANGED <<evalVars, storeVars, dailySeen>>

\* addLetter(letter) (lines 233-249).
addLetter(letter) ==
    LET upperLetter == toUpperCaseChar(letter) IN
    /\ IF statusOf(keyboardStatus, upperLetter) = "absent"
       THEN UNCHANGED gameState
       ELSE IF Len(gameState.currentGuess) >= gameState.wordLength
               \/ gameState.gameStatus # "playing"
       THEN UNCHANGED gameState
       ELSE gameState' = [gameState EXCEPT
                            !.currentGuess = Append(@, toLowerCaseChar(letter))]
    /\ UNCHANGED <<currentHint, lastGuessFeedback, keyboardStatus, stats,
                   localStorage, today, submitResult, statsCalls, lateGuesses, dailyCalls>>
    /\ UNCHANGED <<evalVars, storeVars, dailySeen>>

AddLetter ==
    /\ gameState.gameStatus = "playing" => Len(gameState.guesses) <= MaxTypedAfter
    /\ \E letter \in TypedLetters : addLetter(letter)

\* removeLetter() (lines 251-261).
RemoveLetter ==
    /\ IF Len(gameState.currentGuess) = 0 \/ gameState.gameStatus # "playing"
       THEN UNCHANGED gameState
       ELSE gameState' = [gameState EXCEPT
                            !.currentGuess = SubSeq(@, 1, Len(@) - 1)]
    /\ UNCHANGED <<currentHint, lastGuessFeedback, keyboardStatus, stats,
                   localStorage, today, submitResult, statsCalls, lateGuesses, dailyCalls>>
    /\ UNCHANGED <<evalVars, storeVars, dailySeen>>

\* Midnight: new Date() reads the next day from now on.
NextDay ==
    /\ today < Len(Dates)
    /\ today' = today + 1
    /\ UNCHANGED <<gameState, currentHint, lastGuessFeedback, keyboardStatus, stats,
                   localStorage, submitResult, statsCalls, lateGuesses, dailyCalls>>
    /\ UNCHANGED <<evalVars, storeVars, dailySeen>>

Next ==
    \/ StartGame
    \/ ResetGame
    \/ SubmitGuess
    \/ AddLetter
    \/ RemoveLetter
    \/ NextDay

Spec == Init /\ [][Next]_vars

----------------------------------------------------------------------------
(* The evaluator on its own: getGuessFeedback, getHintSummary and          *)
(* isGuessCorrect applied to a pair of words of equal length, as           *)
(* submitGuess applies them (App.tsx 198-206).                             *)

SPEED == <<"s","p","e","e","d">>

EERIE == <<"e","e","r","i","e">>

\* Words of length 5 over three letters and of length 6 over two, the two
\* words of the documented example, and two words in capitals.
EvalWords ==
    [1..5 -> {"e", "s", "p"}] \cup [1..6 -> {"e", "s"}]
        \cup {SPEED, EERIE, <<"E","E","R","I","E">>, <<"S","p","e","e","D">>}

InitEval ==
    /\ InitSession
    /\ InitHarness
    /\ evGuess \in EvalWords
    /\ evSecret \in EvalWords
    /\ Len(evGuess) = Len(evSecret)
    /\ evFeedback = Null
    /\ evHint = Null
    /\ evCorrect = Null

Evaluate ==
    /\ evFeedback = Null
    /\ evFeedback' = Some(getGuessFeedback(evGuess, evSecret))
    /\ evHint' = Some(getHintSummary(evGuess, evSecret))
    /\ evCorrect' = Some(isGuessCorrect(evGuess, evSecret))
    /\ UNCHANGED <<evGuess, evSecret>>
    /\ UNCHANGED sessionVars
    /\ UNCHANGED <<storeVars, dailySeen>>

NextEval == Evaluate

SpecEval == InitEval /\ [][NextEval]_vars

\* The statuses of a feedback, in order.
statuses(feedback) == [i \in 1..Len(feedback) |-> feedback[i].status]

\* Positions of a feedback that credit letter c (correct or present).
credited(feedback, c) ==
    {i \in 1..Len(feedback) :
        feedback[i].letter = c /\ feedback[i].status \in {"correct", "present"}}

----------------------------------------------------------------------------
(* Claims about the evaluator                                              *)

\* C1: for a secret and a guess of equal length (5 or 6), the feedback has
\* exactly one status per guess position, in guess order, and for every
\* letter the positions marked correct or present for it are at most the
\* occurrences of that letter in the secret.
C1_FeedbackWithinSecretCounts ==
    evFeedback # Null =>
        LET feedback == evFeedback[1]
            guessLower == toLowerCase(evGuess)
            secretLower == toLowerCase(evSecret)
        IN  /\ Len(feedback) = Len(evGuess)
            /\ \A i \in 1..Len(feedback) :
                  /\ feedback[i].letter = guessLower[i]
                  /\ feedback[i].status \in {"correct", "present", "absent"}
            /\ \A c \in Chars(guessLower) \cup Chars(secretLower) :
                  Cardinality(credited(feedback, c)) <= Occurrences(c, secretLower)

\* C1 witness: a feedback for a guess that repeats a letter of the secret
\* more often than the secret holds it, one occurrence left absent.
C1_Witness ==
    /\ evFeedback # Null
    /\ \E c \in Chars(toLowerCase(evSecret)) :
          /\ Occurrences(c, toLowerCase(evGuess)) > Occurrences(c, toLowerCase(evSecret))
          /\ credited(evFeedback[1], c) # {}
          /\ \E i \in 1..Len(evFeedback[1]) :
                evFeedback[1][i].letter = c /\ evFeedback[1][i].status = "absent"

----------------------------------------------------------------------------
(* Claims about the session                                                *)

Terminal == {"won", "lost"}

\* A session that startGame has started: the provider's first state holds
\* the empty secret.
Started == gameState.secretWord # <<>>

\* The canonicalized input has a length other than wordLength or holds a
\* character that is not a letter.
invalidInput(guess, wordLength) ==
    LET word == toLowerCase(guess)
    IN  Len(word) # wordLength \/ \E i \in 1..Len(word) : word[i] \notin LowerAlpha

\* C3: submitGuess called while the status is won or lost is rejected and
\* changes nothing: guesses, status, keyboard status, last hint, GameStats
\* and DailyRecord are unchanged, whatever the guess.
C3_RejectedWhenOver ==
    [][\A guess \in RawGuesses :
          (Started /\ gameState.gameStatus \in Terminal /\ submitGuess(guess)) =>
              /\ submitResult' = "false"
              /\ UNCHANGED <<gameState, keyboardStatus, currentHint, stats, localStorage>>
      ]_vars

\* C4: within one session the status only moves forward: once it is won or
\* lost, no submitGuess, addLetter or removeLetter call changes it.
C4_TerminalStatusStays ==
    [][(/\ Started
        /\ gameState.gameStatus \in Terminal
        /\ SubmitGuess \/ AddLetter \/ RemoveLetter) =>
          gameState'.gameStatus = gameState.gameStatus
      ]_vars

\* C5: the GameStats updates of a session are exactly one once it has
\* reached won or lost and none before, whatever is called afterwards.
C5_OneStatsUpdatePerSession ==
    Started => Len(statsCalls) = IF gameState.gameStatus \in Terminal THEN 1 ELSE 0

\* C6: the number of recorded guesses is at most maxAttempts.
C6_GuessesWithinMaxAttempts ==
    Started => Len(gameState.guesses) <= gameState.maxAttempts

\* C7: once the daily record of today is written, starting or resetting a
\* session in daily mode on the same date does not open a fresh playable
\* daily game.
C7_CompletedDailyNotReopened ==
    [][(/\ isDailyChallengeCompleted(localStorage, today)
        /\ StartGame \/ ResetGame
        /\ gameState'.gameMode = "daily") =>
          gameState'.gameStatus # "playing"
      ]_vars

\* C8: addLetter(letter) leaves the guess buffer unchanged whenever the
\* keyboard status recorded for that letter is absent, in whichever case the
\* letter is passed.
C8_AbsentLetterNotTyped ==
    [][\A letter \in TypedLetters :
          (/\ Started
           /\ statusOf(keyboardStatus, toLowerCaseChar(letter)) = "absent"
           /\ addLetter(letter)) =>
              gameState'.currentGuess = gameState.currentGuess
      ]_vars

\* C9: a submitGuess whose canonicalized input has a length other than the
\* session's wordLength, or holds a non-alphabetic character, is reported as
\* not accepted and changes nothing: guesses, status, guess buffer, keyboard
\* status, last hint and GameStats are unchanged.
C9_InvalidInputRejected ==
    [][\A guess \in RawGuesses :
          (invalidInput(guess, gameState.wordLength) /\ submitGuess(guess)) =>
              /\ submitResult' = "false"
              /\ UNCHANGED <<gameState, keyboardStatus, currentHint,
                             lastGuessFeedback, stats, localStorage>>
      ]_vars

\* C9 witness: a session in play that holds a guess, whose last submitGuess
\* call was rejected while an invalid input was at hand.
C9_Witness ==
    /\ submitResult = "false"
    /\ gameState.gameStatus = "playing"
    /\ gameState.guesses # <<>>
    /\ \E guess \in RawGuesses :
          /\ Len(guess) = gameState.wordLength
          /\ invalidInput(guess, gameState.wordLength)

\* C10: after every accepted guess the status is won if the guess equals
\* the secret (case-insensitively), otherwise lost if the number of recorded
\* guesses now equals maxAttempts, otherwise playing.
C10_StatusRecomputed ==
    [][\A guess \in RawGuesses :
          (/\ Started
           /\ submitGuess(guess)
           /\ submitResult' = "true"
           /\ gameState'.guesses # gameState.guesses) =>
              gameState'.gameStatus =
                  IF toLowerCase(guess) = toLowerCase(gameState.secretWord) THEN "won"
                  ELSE IF Len(gameState'.guesses) = gameState.maxAttempts THEN "lost"
                  ELSE "playing"
      ]_vars

\* C11: a submitGuess that turns the session lost triggers the session's
\* single updateStats call, with won false and maxAttempts attempts; one
\* that turns it won triggers the single call with won true and the number
\* of recorded guesses, which lies in 1..maxAttempts.
C11_EndCallArguments ==
    [][(/\ Started
        /\ SubmitGuess
        /\ gameState'.gameStatus \in Terminal
        /\ gameState'.gameStatus # gameState.gameStatus) =>
          IF gameState'.gameStatus = "lost"
          THEN statsCalls' = << [won |-> FALSE, guesses |-> gameState.maxAttempts] >>
          ELSE /\ statsCalls' = << [won |-> TRUE, guesses |-> Len(gameState'.guesses)] >>
               /\ Len(gameState'.guesses) \in 1..gameState.maxAttempts
      ]_vars

\* C12: the saveDailyChallengeCompleted calls of a session are exactly one,
\* with the session's (won, wordLength, number of guesses), once a daily
\* session is won or lost, and none in any other case; no operation of an
\* unlimited session makes one.
C12_OneDailyRecordPerSession ==
    Started =>
        dailyCalls =
            IF gameState.gameMode = "daily" /\ gameState.gameStatus \in Terminal
            THEN << [won |-> gameState.gameStatus = "won",
                     wordLength |-> gameState.wordLength,
                     guesses |-> Len(gameState.guesses)] >>
            ELSE <<>>

\* The order absent < present < correct, below it a letter never recorded.
rank(status) ==
    CASE status = "correct" -> 3
      [] status = "present" -> 2
      [] status = "absent" -> 1
      [] OTHER -> 0

\* C13: within a session no accepted guess lowers the keyboard status of a
\* letter along absent < present < correct: a letter recorded correct stays
\* correct, a letter recorded present never becomes absent, and no recorded
\* letter is forgotten.
C13_KeyboardOnlyImproves ==
    [][SubmitGuess =>
          \A key \in DOMAIN keyboardStatus :
              rank(statusOf(keyboardStatus', key)) >= rank(keyboardStatus[key])
      ]_vars

\* C13 witness: the last accepted guess gave a letter a status below the one
\* the keyboard records for it.
C13_Witness ==
    /\ Started
    /\ lastGuessFeedback # Null
    /\ \E i \in 1..Len(lastGuessFeedback[1]) :
          LET item == lastGuessFeedback[1][i]
          IN  rank(item.status) < rank(statusOf(keyboardStatus, item.letter))

----------------------------------------------------------------------------
(* Claims about isGuessCorrect and getHintSummary                          *)

\* C16: for a guess and a secret of equal length, isGuessCorrect is true
\* exactly when getGuessFeedback marks every position correct.
C16_ExactMatchIffAllCorrect ==
    (evCorrect # Null /\ evFeedback # Null) =>
        (evCorrect[1] <=>
            \A i \in 1..Len(evFeedback[1]) : evFeedback[1][i].status = "correct")

\* C16 witness: an exact match of two words that differ in case.
C16_Witness ==
    /\ evCorrect = Some(TRUE)
    /\ evFeedback # Null
    /\ evGuess # evSecret

\* C17: getHintSummary returns as correctPosition the number of positions
\* where guess and secret (in canonical lower case) hold the same letter,
\* and as lettersInWord the number of distinct letters of the guess that
\* occur anywhere in the secret; both are at most the word length, and for
\* "speed" against "speed" the result is lettersInWord 4, correctPosition 5.
C17_HintSummaryCounts ==
    evHint # Null =>
        LET hint == evHint[1]
            guessLower == toLowerCase(evGuess)
            secretLower == toLowerCase(evSecret)
        IN  /\ hint.correctPosition =
                  Cardinality({i \in 1..Len(guessLower) : guessLower[i] = secretLower[i]})
            /\ hint.lettersInWord =
                  Cardinality(Chars(guessLower) \cap Chars(secretLower))
            /\ hint.correctPosition <= Len(evGuess)
            /\ hint.lettersInWord <= Len(evGuess)
            /\ (evGuess = SPEED /\ evSecret = SPEED) =>
                  hint = [lettersInWord |-> 4, correctPosition |-> 5]

\* C17 witness: the hint summary of "speed" against "speed" has been computed.
C17_Witness == evHint # Null /\ evGuess = SPEED /\ evSecret = SPEED

\* C18: the hint summary agrees with the feedback for the same guess and
\* secret: correctPosition is the number of positions the feedback marks
\* correct, and lettersInWord is the number of distinct guess letters that
\* have at least one position marked correct or present.
C18_HintAgreesWithFeedback ==
    (evHint # Null /\ evFeedback # Null) =>
        LET hint == evHint[1]
            feedback == evFeedback[1]
        IN  /\ hint.correctPosition =
                  Cardinality({i \in 1..Len(feedback) : feedback[i].status = "correct"})
            /\ hint.lettersInWord =
                  Cardinality({c \in Chars(toLowerCase(evGuess)) : credited(feedback, c) # {}})

\* C18 witness: a feedback that credits one letter at two positions and
\* leaves a further occurrence of a letter of the secret absent, so that
\* the positions credited are more than the letters counted.
C18_Witness ==
    /\ evHint # Null
    /\ evFeedback # Null
    /\ \E c \in Chars(toLowerCase(evGuess)) : Cardinality(credited(evFeedback[1], c)) >= 2
    /\ \E i \in 1..Len(evFeedback[1]) :
          /\ evFeedback[1][i].status = "absent"
          /\ evFeedback[1][i].letter \in Chars(toLowerCase(evSecret))

----------------------------------------------------------------------------
(* Claims about repeated guesses                                           *)

\* C19: a valid guess submitted while playing that repeats the word of the
\* guess recorded last is accepted and recorded again, the two records
\* standing side by side with the same feedback, and it leaves the keyboard
\* status as the first of the two calls left it.
C19_RepeatedGuessRecordedTwice ==
    [][\A guess \in RawGuesses :
          (/\ Started
           /\ gameState.gameStatus = "playing"
           /\ gameState.guesses # <<>>
           /\ gameState.guesses[Len(gameState.guesses)].word = toLowerCase(guess)
           /\ submitGuess(guess)) =>
              LET n == Len(gameState.guesses) IN
              /\ submitResult' = "true"
              /\ Len(gameState'.guesses) = n + 1
              /\ SubSeq(gameState'.guesses, 1, n) = gameState.guesses
              /\ gameState'.guesses[n + 1] = gameState.guesses[n]
              /\ keyboardStatus' = keyboardStatus
      ]_vars

\* C19 witness: a session still in play whose last two records hold the
\* same word, the first of them recorded with two or more attempts left.
C19_Witness ==
    /\ Started
    /\ gameState.gameStatus = "playing"
    /\ lateGuesses = 0
    /\ Len(gameState.guesses) >= 2
    /\ LET n == Len(gameState.guesses)
       IN  gameState.guesses[n].word = gameState.guesses[n - 1].word

----------------------------------------------------------------------------
(* The store on its own: loadStats, updateStats and                        *)
(* isDailyChallengeCompleted called on a store that holds whatever an      *)
(* earlier run, another program or the user left under the two keys.       *)

\* Statistics an earlier run can have left: none played, one win at the
\* third attempt, a win followed by a loss.
StoredStats ==
    { DefaultStats,
      [gamesPlayed |-> 1, gamesWon |-> 1, currentStreak |-> 1, bestStreak |-> 1,
       guessDistribution |-> 3 :> 1],
      [gamesPlayed |-> 2, gamesWon |-> 1, currentStreak |-> 0, bestStreak |-> 1,
       guessDistribution |-> 3 :> 1] }

\* Items under wordgame_stats: none, well-formed ones, and malformed ones.
StoredStatsItems ==
    {Null, Some(NullText), Some(Unparseable)}
        \cup {Some(objectText(s)) : s \in StoredStats}

\* Items under wordgame_daily: none, the record of the first and of the
\* second clock reading, and malformed ones.
StoredDailyItems ==
    {Null, Some(NullText), Some(Unparseable)}
        \cup {Some(objectText([date |-> dateStringOn[d], completed |-> TRUE,
                               won |-> TRUE, wordLength |-> 5, guesses |-> 3])) :
                 d \in 1..Len(Dates)}

\* The guesses argument of updateStats.
AttemptCounts == {1, 3, 7}

InitStats ==
    /\ \E statsItem \in StoredStatsItems, dailyItem \in StoredDailyItems :
          InitWith([wordgame_stats |-> statsItem, wordgame_daily |-> dailyItem])
    /\ evGuess = <<>>
    /\ evSecret = <<>>
    /\ evFeedback = Null
    /\ evHint = Null
    /\ evCorrect = Null
    /\ InitHarness

\* What a call on the store leaves alone.
storeFrame ==
    /\ UNCHANGED <<gameState, currentHint, lastGuessFeedback, keyboardStatus, stats,
                   today, submitResult, statsCalls, lateGuesses, dailyCalls>>
    /\ UNCHANGED evalVars
    /\ UNCHANGED <<callers, raceHistory, dailySeen>>

\* loadStats() (gameLogic.ts 186-203).
LoadStats ==
    /\ storeCall' = [op |-> "loadStats", won |-> FALSE, guesses |-> 0,
                     outcome |-> "returned", value |-> Some(loadStats(localStorage))]
    /\ UNCHANGED localStorage
    /\ storeFrame

\* updateStats(won, guesses) (gameLogic.ts 219-236).
RecordResult(won, guesses) ==
    /\ IF updateStatsThrows(localStorage)
       THEN /\ storeCall' = [op |-> "updateStats", won |-> won, guesses |-> guesses,
                             outcome |-> "TypeError", value |-> Null]
            /\ UNCHANGED localStorage
       ELSE /\ loadStats(localStorage).gamesPlayed < MaxRecorded
            /\ storeCall' = [op |-> "updateStats", won |-> won, guesses |-> guesses,
                             outcome |-> "returned",
                             value |-> Some(updateStats(localStorage, won, guesses))]
            /\ localStorage' = saveStats(localStorage,
                                         updateStats(localStorage, won, guesses))
    /\ storeFrame

UpdateStats == \E won \in BOOLEAN, guesses \in AttemptCounts : RecordResult(won, guesses)

\* isDailyChallengeCompleted() (gameLogic.ts 298-311).
IsDailyChallengeCompleted ==
    /\ storeCall' = [op |-> "isDailyChallengeCompleted", won |-> FALSE, guesses |-> 0,
                     outcome |-> "returned",
                     value |-> Some(isDailyChallengeCompleted(localStorage, today))]
    /\ UNCHANGED localStorage
    /\ storeFrame

NextStats ==
    \/ LoadStats
    \/ UpdateStats
    \/ IsDailyChallengeCompleted

SpecStats == InitStats /\ [][NextStats]_vars

\* The stored item is missing or holds well-formed statistics.
statsItemUsable(store) ==
    store.wordgame_stats = Null \/ store.wordgame_stats[1].json = "object"

\* guessDistribution[guesses], 0 for a key never written.
distributionAt(s, guesses) ==
    IF guesses \in DOMAIN s.guessDistribution THEN s.guessDistribution[guesses] ELSE 0

----------------------------------------------------------------------------
(* Claims about the store                                                  *)

\* C14: updateStats(won, guesses) on stored statistics S returns and stores
\* S with gamesPlayed + 1 and, if won, gamesWon + 1, currentStreak + 1,
\* bestStreak the larger of bestStreak and currentStreak + 1 and
\* guessDistribution[guesses] + 1, or, if not won, currentStreak 0, all else
\* as in S; on fresh all-zero statistics with (true, 3) it yields
\* gamesPlayed 1, gamesWon 1, currentStreak 1, bestStreak 1 and the
\* distribution {3: 1}.
C14_RecordResult ==
    [][\A won \in BOOLEAN, guesses \in AttemptCounts :
          (/\ statsItemUsable(localStorage)
           /\ storeCall'.op = "updateStats"
           /\ RecordResult(won, guesses)) =>
              LET S == loadStats(localStorage)
                  R == storeCall'.value[1]
              IN  /\ storeCall'.outcome = "returned"
                  /\ localStorage'.wordgame_stats = Some(objectText(R))
                  /\ loadStats(localStorage') = R
                  /\ R.gamesPlayed = S.gamesPlayed + 1
                  /\ won =>
                        /\ R.gamesWon = S.gamesWon + 1
                        /\ R.currentStreak = S.currentStreak + 1
                        /\ R.bestStreak = IF S.bestStreak >= S.currentStreak + 1
                                          THEN S.bestStreak ELSE S.currentStreak + 1
                        /\ distributionAt(R, guesses) = distributionAt(S, guesses) + 1
                        /\ \A k \in AttemptCounts \ {guesses} :
                              distributionAt(R, k) = distributionAt(S, k)
                  /\ ~won =>
                        /\ R.currentStreak = 0
                        /\ R.gamesWon = S.gamesWon
                        /\ R.bestStreak = S.bestStreak
                        /\ R.guessDistribution = S.guessDistribution
                  /\ (S = DefaultStats /\ won /\ guesses = 3) =>
                        R = [gamesPlayed |-> 1, gamesWon |-> 1, currentStreak |-> 1,
                             bestStreak |-> 1, guessDistribution |-> 3 :> 1]
      ]_vars

\* C14 witness: updateStats(true, 3) has returned and stored the statistics
\* of one game won at the third attempt.
C14_Witness ==
    /\ storeCall.op = "updateStats"
    /\ storeCall.won
    /\ storeCall.guesses = 3
    /\ storeCall.outcome = "returned"
    /\ storeCall.value[1].gamesPlayed = 1
    /\ loadStats(localStorage) = storeCall.value[1]

\* C15: no call on a store whose items are missing or malformed fails, and
\* loadStats returns statistics (the default ones for an item that is
\* missing, unparseable or not a record).
C15_MalformedStoreRecovered ==
    /\ storeCall.outcome # "TypeError"
    /\ (storeCall.op = "loadStats" /\ storeCall.outcome = "returned") =>
          DOMAIN storeCall.value[1] = DOMAIN DefaultStats

----------------------------------------------------------------------------
(* Two callers of updateStats on one store, e.g. two windows of the game   *)
(* over the same localStorage. Each caller runs updateStats in two steps:  *)
(* the load of line 220, then the update and the save of lines 222-234;    *)
(* the other caller may run between the two.                               *)

\* Items under wordgame_stats the two callers start from.
SharedStatsItems == {Null} \cup {Some(objectText(s)) : s \in StoredStats}

InitConc ==
    /\ \E statsItem \in SharedStatsItems :
          InitWith([wordgame_stats |-> statsItem, wordgame_daily |-> Null])
    /\ evGuess = <<>>
    /\ evSecret = <<>>
    /\ evFeedback = Null
    /\ evHint = Null
    /\ evCorrect = Null
    /\ InitHarness

\* What a step of a caller leaves alone.
callerFrame ==
    /\ UNCHANGED <<gameState, currentHint, lastGuessFeedback, keyboardStatus, stats,
                   today, submitResult, statsCalls, lateGuesses, dailyCalls>>
    /\ UNCHANGED evalVars
    /\ UNCHANGED <<storeCall, dailySeen>>

\* const stats = loadStats() (line 220), in a call updateStats(won, guesses).
CallerLoad(p, won, guesses) ==
    /\ callers[p].pc = "idle"
    /\ callers' = [callers EXCEPT ![p] =
                      [pc |-> "loaded", won |-> won, guesses |-> guesses,
                       loaded |-> Some(loadStats(localStorage))]]
    /\ raceHistory' =
          [raceHistory EXCEPT !.overlapped =
              @ \/ \E q \in Callers \ {p} : callers[q].pc = "loaded"]
    /\ UNCHANGED localStorage
    /\ callerFrame

\* The update of the loaded copy and saveStats(stats) (lines 222-234).
CallerSave(p) ==
    /\ callers[p].pc = "loaded"
    /\ IF callers[p].loaded[1] = JsNull
       THEN /\ callers' = [callers EXCEPT ![p].pc = "TypeError"]
            /\ UNCHANGED localStorage
       ELSE /\ callers' = [callers EXCEPT ![p].pc = "done"]
            /\ localStorage' =
                  saveStats(localStorage,
                            updatedStats(callers[p].loaded[1], callers[p].won,
                                         callers[p].guesses))
    /\ UNCHANGED raceHistory
    /\ callerFrame

Load == \E p \in Callers, won \in BOOLEAN, guesses \in AttemptCounts :
            CallerLoad(p, won, guesses)

Save == \E p \in Callers : CallerSave(p)

NextConc ==
    \/ Load
    \/ Save

SpecConc == InitConc /\ [][NextConc]_vars

\* Every caller's updateStats has returned.
AllDone == \A p \in Callers : callers[p].pc = "done"

----------------------------------------------------------------------------
(* Claims about concurrent callers                                         *)

\* C20: once both callers' updateStats have returned, gamesPlayed in the
\* store has grown by 1 if one caller loaded between the other's load and
\* save (an update is lost), and by 2 if each call ran to completion before
\* the next started.
C20_LostUpdateOnlyWhenInterleaved ==
    AllDone =>
        loadStats(localStorage).gamesPlayed =
            raceHistory.start.gamesPlayed + (IF raceHistory.overlapped THEN 1 ELSE 2)

\* C20 witness: both calls have returned after interleaving between load and
\* save, and the store counts one game more than at the start.
C20_Witness ==
    /\ AllDone
    /\ raceHistory.overlapped
    /\ loadStats(localStorage).gamesPlayed = raceHistory.start.gamesPlayed + 1

----------------------------------------------------------------------------
(* Claims about starting a session and the guess buffer                    *)

\* C21: in every state in which guesses can be submitted, the provider's
\* first state included, the secret word has wordLength (5 or 6) letters.
C21_SecretHasWordLength ==
    /\ gameState.wordLength \in WordLengths
    /\ Len(gameState.secretWord) = gameState.wordLength

\* A session that follows an ended one: the store counts a game and the
\* session has recorded no guess.
FreshAfterGame ==
    /\ Started
    /\ loadStats(localStorage).gamesPlayed >= 1
    /\ gameState.guesses = <<>>
    /\ statsCalls = <<>>

\* C22: startGame, from any state, yields a session with no guesses, an
\* empty guess buffer, status playing, an empty keyboard status, no last
\* hint and no last feedback, and maxAttempts 6 for wordLength 5 and 7 for
\* wordLength 6; the statistics, in memory and in the store, are unchanged.
C22_StartGameResets ==
    [][(StartGame \/ ResetGame) =>
          /\ gameState'.guesses = <<>>
          /\ gameState'.currentGuess = <<>>
          /\ gameState'.gameStatus = "playing"
          /\ keyboardStatus' = <<>>
          /\ currentHint' = Null
          /\ lastGuessFeedback' = Null
          /\ gameState'.wordLength = 5 => gameState'.maxAttempts = 6
          /\ gameState'.wordLength = 6 => gameState'.maxAttempts = 7
          /\ UNCHANGED <<stats, localStorage>>
      ]_vars

\* C22 witness: a session of six-letter words started after a game has ended.
C22_Witness ==
    /\ FreshAfterGame
    /\ gameState.wordLength = 6
    /\ gameState.maxAttempts = 7
    /\ keyboardStatus = <<>>

\* C24: addLetter and removeLetter change nothing when the status is not
\* playing, addLetter changes nothing when the buffer holds wordLength
\* characters, removeLetter changes nothing on an empty buffer; neither ever
\* changes guesses, status, keyboard status or statistics, and the buffer
\* holds at most wordLength characters.
C24_BufferOperations ==
    [][/\ (AddLetter \/ RemoveLetter) =>
            /\ gameState'.guesses = gameState.guesses
            /\ gameState'.gameStatus = gameState.gameStatus
            /\ UNCHANGED <<keyboardStatus, stats, localStorage>>
            /\ gameState.gameStatus # "playing" => UNCHANGED vars
       /\ (AddLetter /\ Len(gameState.currentGuess) >= gameState.wordLength) =>
            UNCHANGED vars
       /\ (RemoveLetter /\ gameState.currentGuess = <<>>) => UNCHANGED vars
       /\ Len(gameState'.currentGuess) <= gameState'.wordLength
      ]_vars

\* C24 witness: a session in play whose buffer holds wordLength characters.
C24_Witness ==
    /\ Started
    /\ gameState.gameStatus = "playing"
    /\ Len(gameState.currentGuess) = gameState.wordLength

\* The last recorded guess is the secret.
lastGuessIsSecret ==
    /\ gameState.guesses # <<>>
    /\ gameState.guesses[Len(gameState.guesses)].word = gameState.secretWord

\* C26: in a started session the status is won exactly when the last
\* recorded guess is the secret, lost exactly when maxAttempts guesses are
\* recorded and the last is not the secret, and playing exactly when fewer
\* than maxAttempts guesses are recorded and none of them is the secret.
C26_StatusDeterminedByGuesses ==
    Started =>
        /\ gameState.gameStatus = "won" <=> lastGuessIsSecret
        /\ gameState.gameStatus = "lost" <=>
              (Len(gameState.guesses) = gameState.maxAttempts /\ ~lastGuessIsSecret)
        /\ gameState.gameStatus = "playing" <=>
              /\ Len(gameState.guesses) < gameState.maxAttempts
              /\ \A i \in 1..Len(gameState.guesses) :
                    gameState.guesses[i].word # gameState.secretWord

\* C29: every win a session enters into the guess distribution is entered
\* under an attempt number between 1 and the session's maxAttempts.
C29_DistributionKeysWithinMaxAttempts ==
    Started =>
        \A i \in 1..Len(statsCalls) :
            statsCalls[i].won => statsCalls[i].guesses \in 1..gameState.maxAttempts

----------------------------------------------------------------------------
(* Further claims about the evaluator and the statistics                   *)

\* The smaller of two numbers.
min(a, b) == IF a <= b THEN a ELSE b

\* C27: for a guess and a secret of equal length and every letter c, the
\* positions marked correct or present for c are as many as the smaller of
\* the occurrences of c in the guess and in the secret; so a letter that
\* does not occur in the secret is absent at every position.
C27_CreditedIsMinOfOccurrences ==
    evFeedback # Null =>
        LET feedback == evFeedback[1]
            guessLower == toLowerCase(evGuess)
            secretLower == toLowerCase(evSecret)
        IN  /\ \A c \in Chars(guessLower) \cup Chars(secretLower) :
                  Cardinality(credited(feedback, c)) =
                      min(Occurrences(c, guessLower), Occurrences(c, secretLower))
            /\ \A i \in 1..Len(feedback) :
                  guessLower[i] \notin Chars(secretLower) => feedback[i].status = "absent"

\* C27 witness: a feedback in which one letter occurs less often in the
\* guess than in the secret, and another letter of the guess does not occur
\* in the secret.
C27_Witness ==
    /\ evFeedback # Null
    /\ \E c \in Chars(toLowerCase(evGuess)) :
          /\ Occurrences(c, toLowerCase(evGuess)) < Occurrences(c, toLowerCase(evSecret))
          /\ Cardinality(credited(evFeedback[1], c)) = Occurrences(c, toLowerCase(evGuess))
    /\ \E c \in Chars(toLowerCase(evGuess)) : c \notin Chars(toLowerCase(evSecret))

\* C25: updateStats(false, guesses) leaves guessDistribution, gamesWon and
\* bestStreak as stored; gamesPlayed grows by one and currentStreak becomes 0.
C25_LossNotDistributed ==
    [][\A guesses \in AttemptCounts :
          (/\ statsItemUsable(localStorage)
           /\ storeCall'.op = "updateStats"
           /\ RecordResult(FALSE, guesses)) =>
              LET S == loadStats(localStorage)
                  R == loadStats(localStorage')
              IN  /\ R.guessDistribution = S.guessDistribution
                  /\ R.gamesWon = S.gamesWon
                  /\ R.bestStreak = S.bestStreak
                  /\ R.gamesPlayed = S.gamesPlayed + 1
                  /\ R.currentStreak = 0
                  /\ storeCall'.value = Some(R)
      ]_vars

\* C25 witness: a loss has been recorded over statistics that hold a win,
\* whose distribution and best streak are still in the store.
C25_Witness ==
    /\ storeCall.op = "updateStats"
    /\ ~storeCall.won
    /\ storeCall.outcome = "returned"
    /\ loadStats(localStorage).gamesWon >= 1
    /\ loadStats(localStorage).bestStreak >= 1
    /\ loadStats(localStorage).currentStreak = 0
    /\ distributionAt(loadStats(localStorage), 3) >= 1

\* The sum of the counts of a guess distribution.
RECURSIVE distributionTotal(_, _)
distributionTotal(dist, keys) ==
    IF keys = {} THEN 0
    ELSE LET k == CHOOSE x \in keys : TRUE
         IN  dist[k] + distributionTotal(dist, keys \ {k})

\* The consistency of statistics.
statsConsistent(s) ==
    /\ s.gamesWon <= s.gamesPlayed
    /\ s.currentStreak <= s.bestStreak
    /\ s.bestStreak <= s.gamesWon
    /\ distributionTotal(s.guessDistribution, DOMAIN s.guessDistribution) = s.gamesWon

\* C28: from default statistics on, whatever sessions and operations have
\* run, the stored statistics, and those held in memory, satisfy
\* gamesWon <= gamesPlayed, currentStreak <= bestStreak <= gamesWon, and the
\* counts of guessDistribution add up to gamesWon.
C28_StatsConsistent ==
    /\ statsConsistent(loadStats(localStorage))
    /\ statsConsistent(stats)

\* C28 witness: the store holds a win followed by a loss.
C28_Witness ==
    /\ loadStats(localStorage).gamesPlayed = 2
    /\ loadStats(localStorage).gamesWon = 1
    /\ loadStats(localStorage).currentStreak = 0
    /\ loadStats(localStorage).bestStreak = 1

----------------------------------------------------------------------------
(* Daily sessions observed: every session started in daily mode is         *)
(* recorded with its word length, the clock reading, its secret and        *)
(* whether startGame took the custom word.                                 *)

\* startGame(wordLength, gameMode, customWord), recorded when the mode is daily.
startObserved(wordLength, gameMode, customWord) ==
    /\ startGame(wordLength, gameMode, customWord)
    /\ dailySeen' =
          IF gameMode = "daily"
          THEN dailySeen \cup
                  {[wordLength |-> wordLength, date |-> today,
                    secret |-> gameState'.secretWord,
                    custom |-> customWordUsed(customWord, wordLength)]}
          ELSE dailySeen

StartObserved ==
    /\ ~updateStatsThrows(localStorage) => loadStats(localStorage).gamesPlayed < MaxGames
    /\ \E wordLength \in WordLengths, gameMode \in GameModes, customWord \in CustomWords :
          startObserved(wordLength, gameMode, customWord)

\* Arguments of submitGuess between the observed starts: one word of each
\* length, the secret of some sessions and a wrong guess in the others.
DailyGuesses == { <<"h","e","l","l","o">>, <<"g","a","r","d","e","n">> }

SubmitBetween == \E guess \in DailyGuesses : submitGuess(guess)

NextDaily ==
    \/ StartObserved
    \/ SubmitBetween
    \/ NextDay

SpecDaily == Init /\ [][NextDaily]_vars

----------------------------------------------------------------------------
(* Claims about the daily word                                             *)

\* C23 as stated: any two sessions started in daily mode with the same
\* wordLength on the same date have the same secret.
C23_AsStated ==
    \A a \in dailySeen : \A b \in dailySeen :
        (a.wordLength = b.wordLength /\ a.date = b.date) => a.secret = b.secret

\* C23 amended: any two sessions started in daily mode with the same
\* wordLength on the same date, neither of them with a custom word of that
\* length, have the same secret, whatever ran in between.
C23_DailyWordByLengthAndDate ==
    \A a \in dailySeen : \A b \in dailySeen :
        (/\ a.wordLength = b.wordLength
         /\ a.date = b.date
         /\ ~a.custom
         /\ ~b.custom) => a.secret = b.secret

\* C23 witness: a daily session has ended today, and a further daily session
\* of the same word length, started today without a custom word, is in play.
C23_Witness ==
    /\ isDailyChallengeCompleted(localStorage, today)
    /\ FreshAfterGame
    /\ gameState.gameMode = "daily"
    /\ gameState.wordLength = JSON_parse(localStorage.wordgame_daily[1]).wordLength
    /\ \E a \in dailySeen :
          /\ ~a.custom
          /\ a.wordLength = gameState.wordLength
          /\ a.date = today
          /\ a.secret = gameState.secretWord

====
